---- MODULE Spec2Model ----
(***************************************************************************)
(* go-taskflow: the executor (executor.go) and the graph / node data model *)
(* (graph.go) as a state machine.                                          *)
(*                                                                         *)
(* Threads: thread 0 is the caller of Run / Wait; threads 1..Concurrency   *)
(* are the slots of the worker pool, each running one invoker closure at a *)
(* time.  A subflow invoker runs the scheduler loop of its sub-graph on    *)
(* its own slot (scheduleGraph is called from the deferred function).      *)
(***************************************************************************)
EXTENDS Integers, Sequences, FiniteSets, Bags, TLC

\* Size of the worker pool handed to NewExecutor.
Concurrency == 2

Main == 0
Workers == 1..Concurrency
Threads == {Main} \cup Workers

NoNode == "nil"
NoSpan == "nospan"
NoGraph == "nograph"
NoChoice == -1

kNodeStateIdle == 0
kNodeStateWaiting == 1
kNodeStateRunning == 2
kNodeStateFinished == 3
kNodeStateFailed == 4

nodeStatic == "static"
nodeSubflow == "subflow"
nodeCondition == "condition"

(***************************************************************************)
(* The task flows handed to the executor.  A world is what the builder     *)
(* layer produced: per graph its node list, per node its kind, successor   *)
(* list and priority, per subflow node its sub-graph, per condition node   *)
(* the values its payload returns on successive calls, the nodes whose     *)
(* payload may panic, and the calls the user makes on the executor.        *)
(***************************************************************************)

\* A, B -> D ; D, F -> E : a join below a join.
WJoin ==
  [ gnodes |-> [g0 |-> <<"A", "B", "F", "D", "E">>],
    typ    |-> [A |-> nodeStatic, B |-> nodeStatic, F |-> nodeStatic,
                D |-> nodeStatic, E |-> nodeStatic],
    succ   |-> [A |-> <<"D">>, B |-> <<"D">>, F |-> <<"E">>,
                D |-> <<"E">>, E |-> <<>>],
    prio   |-> [A |-> 1, B |-> 1, F |-> 2, D |-> 1, E |-> 1],
    sub    |-> [A |-> NoGraph, B |-> NoGraph, F |-> NoGraph,
                D |-> NoGraph, E |-> NoGraph],
    script |-> [A |-> <<>>, B |-> <<>>, F |-> <<>>, D |-> <<>>, E |-> <<>>],
    panics |-> {},
    plan   |-> <<"g0", "wait">> ]

\* A -> {B, C, D} with priorities 3, 1, 2 ; C may panic while its siblings
\* are queued or in flight.
WFan ==
  [ gnodes |-> [g0 |-> <<"A", "B", "C", "D">>],
    typ    |-> [A |-> nodeStatic, B |-> nodeStatic, C |-> nodeStatic,
                D |-> nodeStatic],
    succ   |-> [A |-> <<"B", "C", "D">>, B |-> <<>>, C |-> <<>>, D |-> <<>>],
    prio   |-> [A |-> 2, B |-> 3, C |-> 1, D |-> 2],
    sub    |-> [A |-> NoGraph, B |-> NoGraph, C |-> NoGraph, D |-> NoGraph],
    script |-> [A |-> <<>>, B |-> <<>>, C |-> <<>>, D |-> <<>>],
    panics |-> {"C"},
    plan   |-> <<"g0", "wait">> ]

\* A -> B -> C, B may panic (scenario S6).  The flow is run a second time.
WChain ==
  [ gnodes |-> [g0 |-> <<"A", "B", "C">>],
    typ    |-> [A |-> nodeStatic, B |-> nodeStatic, C |-> nodeStatic],
    succ   |-> [A |-> <<"B">>, B |-> <<"C">>, C |-> <<>>],
    prio   |-> [A |-> 1, B |-> 1, C |-> 1],
    sub    |-> [A |-> NoGraph, B |-> NoGraph, C |-> NoGraph],
    script |-> [A |-> <<>>, B |-> <<>>, C |-> <<>>],
    panics |-> {"B"},
    plan   |-> <<"g0", "wait", "g0", "wait">> ]

\* P1 -> SF -> P2, SF's sub-graph is S1 -> S2 (scenario S5); S1 may panic.
WSub ==
  [ gnodes |-> [g0 |-> <<"P1", "SF", "P2">>, g1 |-> <<"S1", "S2">>],
    typ    |-> [P1 |-> nodeStatic, SF |-> nodeSubflow, P2 |-> nodeStatic,
                S1 |-> nodeStatic, S2 |-> nodeStatic],
    succ   |-> [P1 |-> <<"SF">>, SF |-> <<"P2">>, P2 |-> <<>>,
                S1 |-> <<"S2">>, S2 |-> <<>>],
    prio   |-> [P1 |-> 1, SF |-> 1, P2 |-> 1, S1 |-> 1, S2 |-> 1],
    sub    |-> [P1 |-> NoGraph, SF |-> "g1", P2 |-> NoGraph,
                S1 |-> NoGraph, S2 |-> NoGraph],
    script |-> [P1 |-> <<>>, SF |-> <<>>, P2 |-> <<>>, S1 |-> <<>>, S2 |-> <<>>],
    panics |-> {"S1"},
    plan   |-> <<"g0", "wait">> ]

\* SF -> P2 where the builder of SF may panic.
WBuild ==
  [ gnodes |-> [g0 |-> <<"SF", "P2">>, g1 |-> <<"S1">>],
    typ    |-> [SF |-> nodeSubflow, P2 |-> nodeStatic, S1 |-> nodeStatic],
    succ   |-> [SF |-> <<"P2">>, P2 |-> <<>>, S1 |-> <<>>],
    prio   |-> [SF |-> 1, P2 |-> 1, S1 |-> 1],
    sub    |-> [SF |-> "g1", P2 |-> NoGraph, S1 |-> NoGraph],
    script |-> [SF |-> <<>>, P2 |-> <<>>, S1 |-> <<>>],
    panics |-> {"SF"},
    plan   |-> <<"g0", "wait">> ]

\* A -> cond ; cond's successors are [X, Y] ; Q is an independent entry of
\* lower priority, pushed to the flow first, that may panic.  CondWorld(k) is
\* the flow whose condition payload returns k.
CondWorld(k) ==
  [ gnodes |-> [g0 |-> <<"Q", "A", "cond", "X", "Y">>],
    typ    |-> [A |-> nodeStatic, Q |-> nodeStatic, cond |-> nodeCondition,
                X |-> nodeStatic, Y |-> nodeStatic],
    succ   |-> [A |-> <<"cond">>, Q |-> <<>>, cond |-> <<"X", "Y">>,
                X |-> <<>>, Y |-> <<>>],
    prio   |-> [A |-> 1, Q |-> 2, cond |-> 1, X |-> 1, Y |-> 1],
    sub    |-> [A |-> NoGraph, Q |-> NoGraph, cond |-> NoGraph,
                X |-> NoGraph, Y |-> NoGraph],
    script |-> [A |-> <<>>, Q |-> <<>>, cond |-> <<k>>, X |-> <<>>, Y |-> <<>>],
    panics |-> {"Q"},
    plan   |-> <<"g0", "wait">> ]

\* A -> B -> cond ; cond's successors are [B, D] ; cond returns the back edge
\* twice, then the exit (scenario S4).
WLoop ==
  [ gnodes |-> [g0 |-> <<"A", "B", "cond", "D">>],
    typ    |-> [A |-> nodeStatic, B |-> nodeStatic, cond |-> nodeCondition,
                D |-> nodeStatic],
    succ   |-> [A |-> <<"B">>, B |-> <<"cond">>, cond |-> <<"B", "D">>,
                D |-> <<>>],
    prio   |-> [A |-> 1, B |-> 1, cond |-> 1, D |-> 1],
    sub    |-> [A |-> NoGraph, B |-> NoGraph, cond |-> NoGraph, D |-> NoGraph],
    script |-> [A |-> <<>>, B |-> <<>>, cond |-> <<0, 0, 1>>, D |-> <<>>],
    panics |-> {},
    plan   |-> <<"g0", "wait">> ]

\* SF -> P2 where SF's sub-graph holds two independent vertices S1 and S2 ;
\* S1 may panic while S2 is queued or in flight.
WSubPar ==
  [ gnodes |-> [g0 |-> <<"SF", "P2">>, g1 |-> <<"S1", "S2">>],
    typ    |-> [SF |-> nodeSubflow, P2 |-> nodeStatic, S1 |-> nodeStatic,
                S2 |-> nodeStatic],
    succ   |-> [SF |-> <<"P2">>, P2 |-> <<>>, S1 |-> <<>>, S2 |-> <<>>],
    prio   |-> [SF |-> 1, P2 |-> 1, S1 |-> 1, S2 |-> 2],
    sub    |-> [SF |-> "g1", P2 |-> NoGraph, S1 |-> NoGraph, S2 |-> NoGraph],
    script |-> [SF |-> <<>>, P2 |-> <<>>, S1 |-> <<>>, S2 |-> <<>>],
    panics |-> {"S1"},
    plan   |-> <<"g0", "wait">> ]

\* two subflow vertices SF1 and SF2 that are entries of the same graph, each
\* with a sub-graph of one vertex ; no payload panics.
WTwoSub ==
  [ gnodes |-> [g0 |-> <<"SF1", "SF2">>, g1 |-> <<"S1">>, g2 |-> <<"T1">>],
    typ    |-> [SF1 |-> nodeSubflow, SF2 |-> nodeSubflow, S1 |-> nodeStatic,
                T1 |-> nodeStatic],
    succ   |-> [SF1 |-> <<>>, SF2 |-> <<>>, S1 |-> <<>>, T1 |-> <<>>],
    prio   |-> [SF1 |-> 1, SF2 |-> 1, S1 |-> 1, T1 |-> 1],
    sub    |-> [SF1 |-> "g1", SF2 |-> "g2", S1 |-> NoGraph, T1 |-> NoGraph],
    script |-> [SF1 |-> <<>>, SF2 |-> <<>>, S1 |-> <<>>, T1 |-> <<>>],
    panics |-> {},
    plan   |-> <<"g0", "wait">> ]

\* A -> cond and B -> cond : a condition vertex with two static predecessors ;
\* cond's successors are [X].
WCondJoin ==
  [ gnodes |-> [g0 |-> <<"A", "B", "cond", "X">>],
    typ    |-> [A |-> nodeStatic, B |-> nodeStatic, cond |-> nodeCondition,
                X |-> nodeStatic],
    succ   |-> [A |-> <<"cond">>, B |-> <<"cond">>, cond |-> <<"X">>,
                X |-> <<>>],
    prio   |-> [A |-> 1, B |-> 1, cond |-> 1, X |-> 1],
    sub    |-> [A |-> NoGraph, B |-> NoGraph, cond |-> NoGraph, X |-> NoGraph],
    script |-> [A |-> <<>>, B |-> <<>>, cond |-> <<0>>, X |-> <<>>],
    panics |-> {},
    plan   |-> <<"g0", "wait">> ]

\* two flows run on the same executor: g0 with the independent vertices C
\* and B, where C may panic, and h0 with the single vertex H.  The caller
\* runs g0, runs g0 again, runs h0, and waits.
WRerun ==
  [ gnodes |-> [g0 |-> <<"C", "B">>, h0 |-> <<"H">>],
    typ    |-> [C |-> nodeStatic, B |-> nodeStatic, H |-> nodeStatic],
    succ   |-> [C |-> <<>>, B |-> <<>>, H |-> <<>>],
    prio   |-> [C |-> 1, B |-> 2, H |-> 1],
    sub    |-> [C |-> NoGraph, B |-> NoGraph, H |-> NoGraph],
    script |-> [C |-> <<>>, B |-> <<>>, H |-> <<>>],
    panics |-> {"C"},
    plan   |-> <<"g0", "g0", "h0", "wait">> ]

Worlds ==
  [ join  |-> WJoin,
    fan   |-> WFan,
    chain |-> WChain,
    sub   |-> WSub,
    build |-> WBuild,
    cond0 |-> CondWorld(0),
    cond1 |-> CondWorld(1),
    cond2 |-> CondWorld(2),
    cond3 |-> CondWorld(3),
    loop    |-> WLoop,
    subpar  |-> WSubPar,
    twosub  |-> WTwoSub,
    condjoin |-> WCondJoin,
    rerun    |-> WRerun ]

Scenarios == DOMAIN Worlds

ExtScenarios == {"loop", "subpar", "twosub", "condjoin", "rerun"}
CoreScenarios == Scenarios \ ({"join"} \cup ExtScenarios)
DagScenarios == {"join", "fan", "chain"}

VARIABLES
  sc,         \* the task flow (a key of Worlds)
  pi,         \* number of calls of the plan the caller has begun
  th,         \* per thread: its position and its locals
  nstate,     \* innerNode.state
  njc,        \* innerNode.joinCounter
  gjc,        \* eGraph.joinCounter
  canceled,   \* eGraph.canceled
  inst,       \* eGraph.instancelized
  wq,         \* innerExecutorImpl.wq
  wg,         \* innerExecutorImpl.wg
  pending,    \* closures handed to pool.Go and not yet started
  spans,      \* profiler: the parent of the span recorded per node
  calls,      \* number of calls of each node's payload so far
  started,    \* history: invocations of each node begun in the current run
  ended,      \* history: invocations of each node whose payload has ended
  diag        \* history: how each node's invoker last panicked

vars == <<sc, pi, th, nstate, njc, gjc, canceled, inst, wq, wg, pending,
          spans, calls, started, ended, diag>>

W == Worlds[sc]
Graphs == DOMAIN W.gnodes
Nodes == DOMAIN W.typ

SeqToSet(s) == {s[i] : i \in DOMAIN s}

\* innerNode.g
OwnerIn(w, n) == CHOOSE g \in DOMAIN w.gnodes : n \in SeqToSet(w.gnodes[g])
Owner(n) == OwnerIn(W, n)

\* the graph whose subflow node embeds g, or NoGraph for a top-level graph
ParentGraph(g) ==
  IF \E n \in Nodes : W.sub[n] = g
  THEN Owner(CHOOSE n \in Nodes : W.sub[n] = g)
  ELSE NoGraph

\* number of times x occurs in s
Count(x, s) == Cardinality({i \in DOMAIN s : s[i] = x})

RECURSIVE SumOver(_, _)
SumOver(f, S) ==
  IF S = {} THEN 0
  ELSE LET x == CHOOSE y \in S : TRUE IN f[x] + SumOver(f, S \ {x})

\* len(node.dependents)
NumDependents(n) == SumOver([m \in Nodes |-> Count(n, W.succ[m])], Nodes)

\* number of dependents that are not condition nodes (what innerNode.setup adds)
NonCondDeps(n) ==
  SumOver([m \in Nodes |-> IF W.typ[m] = nodeCondition THEN 0
                           ELSE Count(n, W.succ[m])], Nodes)

\* g.nodes: a sub-graph is empty until its builder has populated it
GraphNodes(g) ==
  IF ParentGraph(g) # NoGraph /\ ~inst[g] THEN <<>> ELSE W.gnodes[g]

\* Condition.mapper: index i (from 0) maps to the i-th node the condition precedes
Mapper(n) == W.succ[n]

\* invokeCondition: the range check on the value the payload returned
OutOfRange(n, choice) == choice > Len(Mapper(n))

\* as if sche_successors were called on the condition node
Chosen_AllSuccessors(n, choice) ==
  IF choice < Len(Mapper(n)) THEN Mapper(n) ELSE <<NoNode>>

\* invokeCondition: the arguments of e.schedule(p.mapper[choice]); a key the
\* mapper does not hold yields nil
Chosen(n, choice) ==
  IF choice < Len(Mapper(n)) THEN <<Mapper(n)[choice + 1]>> ELSE <<NoNode>>

\* the value the payload of condition node n returns on its c-th call
Choice(n, c) ==
  LET s == W.script[n] IN s[IF c < Len(s) THEN c ELSE Len(s)]

\* what a call of the payload of n may do
Outcomes(n) == IF n \in W.panics THEN {"return", "panic"} ELSE {"return"}

(***************************************************************************)
(* slices.SortFunc with cmp.Compare on priority (an insertion sort for the *)
(* short slices sorted here).                                              *)
(***************************************************************************)
RECURSIVE InsertByPriority(_, _)
InsertByPriority(x, s) ==
  IF s = <<>> THEN <<x>>
  ELSE IF W.prio[x] < W.prio[Head(s)] THEN <<x>> \o s
  ELSE <<Head(s)>> \o InsertByPriority(x, Tail(s))

RECURSIVE SortInto(_, _)
SortInto(s, acc) ==
  IF s = <<>> THEN acc ELSE SortInto(Tail(s), InsertByPriority(Head(s), acc))

\* as if the slice were not sorted
SortByPriority_Unsorted(s) == s

SortByPriority(s) == SortInto(s, <<>>)

IsEntry(n) == NumDependents(n) = 0

\* g.entries after g.setup() and the sort of scheduleGraph
Entries(g) == SortByPriority(SelectSeq(GraphNodes(g), IsEntry))

\* eGraph.setup (with eGraph.reset and innerNode.setup of every node)
SetupJc(g) ==
  [n \in Nodes |-> IF n \in SeqToSet(GraphNodes(g)) THEN NonCondDeps(n) ELSE njc[n]]

SetupState(g) ==
  [n \in Nodes |-> IF n \in SeqToSet(GraphNodes(g)) THEN kNodeStateIdle ELSE nstate[n]]

IsReady(n) == njc[n] = 0 \/ W.typ[n] = nodeCondition

\* the candidate slice of sche_successors, sorted
Candidates(n) == SortByPriority(SelectSeq(W.succ[n], IsReady))

\* innerNode.drop: the join counters after node n released its successors
DropJc(n) ==
  [m \in Nodes |-> IF W.typ[n] # nodeCondition
                   THEN njc[m] - Count(m, W.succ[n])
                   ELSE njc[m]]

\* a free slot of the pool; the locals of a closure, with two histories:
\* pushed, the vertices the current call of schedule has put on the queue, and
\* stale, whether the vertex was taken from the queue after the scheduler loop
\* of its graph had exited on cancellation
IdleTh ==
  [pc |-> "idle", node |-> NoNode, parent |-> NoSpan, r |-> FALSE,
   choice |-> NoChoice, dg |-> NoGraph, cand |-> <<>>, ret |-> "none",
   pushed |-> <<>>, stale |-> FALSE]

\* the parent span a dispatcher hands to the invokers it submits
DispatcherSpan(t) == IF t = Main THEN NoSpan ELSE th[t].node

\* sync.Cond.Signal on g.scheCond: wakes one dispatcher parked in Wait, if any
Waiters(thr, g) == {t \in Threads : thr[t].pc = "cond_wait" /\ thr[t].dg = g}

SignalOutcomes(thr, g) ==
  IF Waiters(thr, g) = {} THEN {thr}
  ELSE {[thr EXCEPT ![w].pc = "ig_check"] : w \in Waiters(thr, g)}

InitOf(S) ==
  /\ sc \in S
  /\ pi = 0
  /\ th = [t \in Threads |-> IF t = Main THEN [IdleTh EXCEPT !.pc = "start"] ELSE IdleTh]
  /\ nstate = [n \in Nodes |-> kNodeStateIdle]
  /\ njc = [n \in Nodes |-> 0]
  /\ gjc = [g \in Graphs |-> 0]
  /\ canceled = [g \in Graphs |-> FALSE]
  /\ inst = [g \in Graphs |-> FALSE]
  /\ wq = <<>>
  /\ wg = 0
  /\ pending = EmptyBag
  /\ spans = [n \in Nodes |-> "absent"]
  /\ calls = [n \in Nodes |-> 0]
  /\ started = [n \in Nodes |-> 0]
  /\ ended = [n \in Nodes |-> 0]
  /\ diag = [n \in Nodes |-> "none"]

Init == InitOf(CoreScenarios)

CallerReady == th[Main].pc \in {"start", "run_ret", "wait_ret"} /\ pi < Len(W.plan)

\* Run: scheduleGraph(tf.graph, nil) up to the call of schedule
Run ==
  /\ CallerReady
  /\ W.plan[pi + 1] # "wait"
  /\ LET g == W.plan[pi + 1] IN
       /\ pi' = pi + 1
       /\ gjc' = [gjc EXCEPT ![g] = 0]
       /\ njc' = SetupJc(g)
       /\ nstate' = SetupState(g)
       /\ th' = [th EXCEPT ![Main] =
                   [IdleTh EXCEPT !.pc = "schedule", !.dg = g,
                                  !.cand = Entries(g), !.ret = "ig_check"]]
  /\ started' = [n \in Nodes |-> 0]
  /\ ended' = [n \in Nodes |-> 0]
  /\ UNCHANGED <<sc, canceled, inst, wq, wg, pending, spans, calls, diag>>

\* Wait: the caller enters wg.Wait()
WaitCall ==
  /\ CallerReady
  /\ W.plan[pi + 1] = "wait"
  /\ pi' = pi + 1
  /\ th' = [th EXCEPT ![Main].pc = "wait"]
  /\ UNCHANGED <<sc, nstate, njc, gjc, canceled, inst, wq, wg, pending,
                 spans, calls, started, ended, diag>>

\* Wait: wg.Wait() returns once the counter is zero
WaitReturn ==
  /\ th[Main].pc = "wait"
  /\ wg = 0
  /\ th' = [th EXCEPT ![Main].pc = "wait_ret"]
  /\ UNCHANGED <<sc, pi, nstate, njc, gjc, canceled, inst, wq, wg, pending,
                 spans, calls, started, ended, diag>>

\* schedule: one iteration of the loop up to wq.Put, or the return
SchedulePut(t) ==
  /\ th[t].pc = "schedule"
  /\ IF th[t].cand = <<>>
     THEN /\ th' = [th EXCEPT ![t].pc = th[t].ret, ![t].ret = "none"]
          /\ UNCHANGED <<gjc, wg, wq>>
     ELSE LET n == Head(th[t].cand)
              g == Owner(n)
          IN IF canceled[g]
             THEN /\ \E nt \in SignalOutcomes(
                          [th EXCEPT ![t].pc = th[t].ret, ![t].ret = "none",
                                     ![t].cand = <<>>], g) :
                        th' = nt
                  /\ UNCHANGED <<gjc, wg, wq>>
             ELSE /\ gjc' = [gjc EXCEPT ![g] = @ + 1]
                  /\ wg' = wg + 1
                  /\ wq' = Append(wq, n)
                  /\ th' = [th EXCEPT ![t].pc = "sched_store",
                                      ![t].pushed = Append(@, n)]
  /\ UNCHANGED <<sc, pi, nstate, njc, canceled, inst, pending, spans,
                 calls, started, ended, diag>>

\* schedule: node.state.Store(kNodeStateWaiting) and the Signal of one iteration
ScheduleStore(t) ==
  /\ th[t].pc = "sched_store"
  /\ LET n == Head(th[t].cand) IN
       /\ nstate' = [nstate EXCEPT ![n] = kNodeStateWaiting]
       /\ \E nt \in SignalOutcomes(
               [th EXCEPT ![t].pc = "schedule", ![t].cand = Tail(@)], Owner(n)) :
             th' = nt
  /\ UNCHANGED <<sc, pi, njc, gjc, canceled, inst, wq, wg, pending, spans,
                 calls, started, ended, diag>>

\* invokeGraph: the predicate of the wait loop
MustWait(g) == gjc[g] # 0 /\ Len(wq) = 0 /\ ~canceled[g]

\* as if the loop ended on an empty queue
LoopExit_QueueEmpty(g) == Len(wq) = 0 \/ canceled[g]

\* invokeGraph: the test that ends the scheduler loop
LoopExit(g) == gjc[g] = 0 \/ canceled[g]

\* invokeGraph: the predicate of the wait loop, evaluated under scheCond.L
InvokeGraphCheck(t) ==
  /\ th[t].pc = "ig_check"
  /\ LET g == th[t].dg IN
       th' = [th EXCEPT ![t].pc = IF MustWait(g) THEN "ig_wait" ELSE "ig_decide"]
  /\ UNCHANGED <<sc, pi, nstate, njc, gjc, canceled, inst, wq, wg, pending,
                 spans, calls, started, ended, diag>>

\* invokeGraph: g.scheCond.Wait() parks the dispatcher
InvokeGraphWait(t) ==
  /\ th[t].pc = "ig_wait"
  /\ th' = [th EXCEPT ![t].pc = "cond_wait"]
  /\ UNCHANGED <<sc, pi, nstate, njc, gjc, canceled, inst, wq, wg, pending,
                 spans, calls, started, ended, diag>>

\* invokeGraph: the exit test after the lock is released
InvokeGraphDecide(t) ==
  /\ th[t].pc = "ig_decide"
  /\ LET g == th[t].dg IN
       th' = [th EXCEPT ![t].pc = IF LoopExit(g) THEN "sg_signal" ELSE "ig_take"]
  /\ UNCHANGED <<sc, pi, nstate, njc, gjc, canceled, inst, wq, wg, pending,
                 spans, calls, started, ended, diag>>

\* history: the scheduler loop of the graph of n has exited on cancellation
\* (the graph is cancelled and no dispatcher runs its loop)
Abandoned(n) ==
  /\ canceled[Owner(n)]
  /\ ~\E u \in Threads : th[u].dg = Owner(n) /\ th[u].pc # "sg_signal"

\* invokeGraph: wq.PeakAndTake() and invokeNode (pool.Go of the invoker)
InvokeGraphTake(t) ==
  /\ th[t].pc = "ig_take"
  /\ wq # <<>>
  /\ wq' = Tail(wq)
  /\ pending' = pending (+) SetToBag({<<Head(wq), DispatcherSpan(t),
                                        Abandoned(Head(wq))>>})
  /\ th' = [th EXCEPT ![t].pc = "ig_check"]
  /\ UNCHANGED <<sc, pi, nstate, njc, gjc, canceled, inst, wg, spans,
                 calls, started, ended, diag>>

\* scheduleGraph: the Signal after invokeGraph returned, and the return
ScheduleGraphReturn(t) ==
  /\ th[t].pc = "sg_signal"
  /\ \E nt \in SignalOutcomes(
          [th EXCEPT ![t].pc = IF t = Main THEN "run_ret" ELSE "drop",
                     ![t].dg = NoGraph], th[t].dg) :
        th' = nt
  /\ UNCHANGED <<sc, pi, nstate, njc, gjc, canceled, inst, wq, wg, pending,
                 spans, calls, started, ended, diag>>

LowestIdle == CHOOSE w \in Workers :
                 /\ th[w].pc = "idle"
                 /\ \A v \in Workers : th[v].pc = "idle" => w <= v

\* pool.Go: a free slot of the pool starts one of the submitted closures
PoolStart ==
  /\ \E w \in Workers : th[w].pc = "idle"
  /\ \E item \in BagToSet(pending) :
       /\ pending' = pending (-) SetToBag({item})
       /\ th' = [th EXCEPT ![LowestIdle] =
                   [IdleTh EXCEPT !.pc = "begin", !.node = item[1],
                                  !.parent = item[2], !.stale = item[3]]]
  /\ UNCHANGED <<sc, pi, nstate, njc, gjc, canceled, inst, wq, wg, spans,
                 calls, started, ended, diag>>

\* an invoker: node.state.Store(kNodeStateRunning), then the payload is called
InvokeBegin(t) ==
  /\ th[t].pc = "begin"
  /\ nstate' = [nstate EXCEPT ![th[t].node] = kNodeStateRunning]
  /\ started' = [started EXCEPT ![th[t].node] = @ + 1]
  /\ th' = [th EXCEPT ![t].pc = "payload"]
  /\ UNCHANGED <<sc, pi, njc, gjc, canceled, inst, wq, wg, pending, spans,
                 calls, ended, diag>>

\* invokeStatic: p.handle() returns or panics; the deferred function up to drop
StaticPayload(t) ==
  /\ th[t].pc = "payload"
  /\ W.typ[th[t].node] = nodeStatic
  /\ LET n == th[t].node IN
     \E o \in Outcomes(n) :
       /\ calls' = [calls EXCEPT ![n] = @ + 1]
       /\ ended' = [ended EXCEPT ![n] = @ + 1]
       /\ IF o = "return"
          THEN /\ nstate' = [nstate EXCEPT ![n] = kNodeStateFinished]
               /\ spans' = [spans EXCEPT ![n] = th[t].parent]
               /\ th' = [th EXCEPT ![t].pc = "drop"]
               /\ UNCHANGED <<canceled, diag>>
          ELSE /\ canceled' = [canceled EXCEPT ![Owner(n)] = TRUE]
               /\ diag' = [diag EXCEPT ![n] = "user"]
               /\ th' = [th EXCEPT ![t].pc = "drop", ![t].r = TRUE]
               /\ UNCHANGED <<nstate, spans>>
  /\ UNCHANGED <<sc, pi, njc, gjc, inst, wq, wg, pending, started>>

\* invokeSubflow: the builder is called unless the sub-graph is instancelized;
\* the deferred function up to scheduleGraph
SubflowPayload(t) ==
  /\ th[t].pc = "payload"
  /\ W.typ[th[t].node] = nodeSubflow
  /\ LET n == th[t].node
         sg == W.sub[n]
     IN
     \E o \in (IF inst[sg] THEN {"return"} ELSE Outcomes(n)) :
       /\ calls' = [calls EXCEPT ![n] = IF inst[sg] THEN @ ELSE @ + 1]
       /\ ended' = [ended EXCEPT ![n] = @ + 1]
       /\ IF o = "return"
          THEN /\ inst' = [inst EXCEPT ![sg] = TRUE]
               /\ nstate' = [nstate EXCEPT ![n] = kNodeStateFinished]
               /\ spans' = [spans EXCEPT ![n] = th[t].parent]
               /\ th' = [th EXCEPT ![t].pc = "sf_sched"]
               /\ UNCHANGED <<canceled, diag>>
          ELSE /\ canceled' = [canceled EXCEPT ![Owner(n)] = TRUE, ![sg] = TRUE]
               /\ diag' = [diag EXCEPT ![n] = "user"]
               /\ th' = [th EXCEPT ![t].pc = "sf_sched", ![t].r = TRUE]
               /\ UNCHANGED <<inst, nstate, spans>>
  /\ UNCHANGED <<sc, pi, njc, gjc, wq, wg, pending, started>>

\* invokeSubflow, deferred: scheduleGraph(p.g, &span) up to the call of schedule
SubflowScheduleGraph(t) ==
  /\ th[t].pc = "sf_sched"
  /\ LET g == W.sub[th[t].node] IN
       /\ gjc' = [gjc EXCEPT ![g] = 0]
       /\ njc' = SetupJc(g)
       /\ nstate' = SetupState(g)
       /\ th' = [th EXCEPT ![t].pc = "schedule", ![t].dg = g,
                           ![t].cand = Entries(g), ![t].ret = "ig_check",
                           ![t].pushed = <<>>]
  /\ UNCHANGED <<sc, pi, canceled, inst, wq, wg, pending, spans, calls, started,
                 ended, diag>>

\* invokeStatic / invokeSubflow, deferred: node.drop()
Drop(t) ==
  /\ th[t].pc = "drop"
  /\ njc' = DropJc(th[t].node)
  /\ th' = [th EXCEPT ![t].pc = "sche_succ"]
  /\ UNCHANGED <<sc, pi, nstate, gjc, canceled, inst, wq, wg, pending, spans,
                 calls, started, ended, diag>>

\* sche_successors up to the call of schedule: the candidates, the sort, node.setup()
ScheSuccessors(t) ==
  /\ th[t].pc = "sche_succ"
  /\ LET n == th[t].node IN
       /\ nstate' = [nstate EXCEPT ![n] = kNodeStateIdle]
       /\ njc' = [njc EXCEPT ![n] = @ + NonCondDeps(n)]
       /\ th' = [th EXCEPT ![t].pc = "schedule", ![t].cand = Candidates(n),
                           ![t].ret = "decr", ![t].pushed = <<>>]
  /\ UNCHANGED <<sc, pi, gjc, canceled, inst, wq, wg, pending, spans, calls, started,
                 ended, diag>>

\* as if the join counter of the graph were decreased on the path without panic only
Decrease_OnlyOnSuccess(t) ==
  /\ th[t].pc = "decr"
  /\ gjc' = [gjc EXCEPT ![Owner(th[t].node)] = IF th[t].r THEN @ ELSE @ - 1]
  /\ th' = [th EXCEPT ![t].pc = "done"]
  /\ UNCHANGED <<sc, pi, nstate, njc, canceled, inst, wq, wg, pending, spans,
                 calls, started, ended, diag>>

\* invokeStatic / invokeSubflow, deferred: node.g.joinCounter.Decrease()
Decrease(t) ==
  /\ th[t].pc = "decr"
  /\ gjc' = [gjc EXCEPT ![Owner(th[t].node)] = @ - 1]
  /\ th' = [th EXCEPT ![t].pc = "done"]
  /\ UNCHANGED <<sc, pi, nstate, njc, canceled, inst, wq, wg, pending, spans,
                 calls, started, ended, diag>>

\* every invoker, deferred: e.wg.Done() and node.g.scheCond.Signal(); the slot is free
Done(t) ==
  /\ th[t].pc = "done"
  /\ wg' = wg - 1
  /\ \E nt \in SignalOutcomes([th EXCEPT ![t] = IdleTh], Owner(th[t].node)) :
        th' = nt
  /\ UNCHANGED <<sc, pi, nstate, njc, gjc, canceled, inst, wq, pending, spans,
                 calls, started, ended, diag>>

\* invokeCondition: p.handle(), the range check, the Store of finished and the
\* call of schedule on the chosen successor
ConditionPayload(t) ==
  /\ th[t].pc = "payload"
  /\ W.typ[th[t].node] = nodeCondition
  /\ LET n == th[t].node
         choice == Choice(n, calls[n] + 1)
     IN
     \E o \in Outcomes(n) :
       /\ ended' = [ended EXCEPT ![n] = @ + 1]
       /\ IF o = "panic"
          THEN /\ canceled' = [canceled EXCEPT ![Owner(n)] = TRUE]
               /\ diag' = [diag EXCEPT ![n] = "user"]
               /\ th' = [th EXCEPT ![t].pc = "cfin", ![t].r = TRUE]
               /\ calls' = [calls EXCEPT ![n] = @ + 1]
               /\ UNCHANGED nstate
          ELSE IF OutOfRange(n, choice)
          THEN \* the diagnostic is built with a second call of p.handle()
               /\ calls' = [calls EXCEPT ![n] = @ + 2]
               /\ canceled' = [canceled EXCEPT ![Owner(n)] = TRUE]
               /\ diag' = [diag EXCEPT ![n] = "out_of_range"]
               /\ th' = [th EXCEPT ![t].pc = "cfin", ![t].r = TRUE,
                                   ![t].choice = choice]
               /\ UNCHANGED nstate
          ELSE IF Chosen(n, choice) = <<NoNode>>
          THEN \* p.mapper[choice] is nil: schedule panics reading node.g
               /\ nstate' = [nstate EXCEPT ![n] = kNodeStateFinished]
               /\ canceled' = [canceled EXCEPT ![Owner(n)] = TRUE]
               /\ diag' = [diag EXCEPT ![n] = "runtime"]
               /\ calls' = [calls EXCEPT ![n] = @ + 1]
               /\ th' = [th EXCEPT ![t].pc = "cfin", ![t].r = TRUE,
                                   ![t].choice = choice]
          ELSE /\ nstate' = [nstate EXCEPT ![n] = kNodeStateFinished]
               /\ th' = [th EXCEPT ![t].pc = "schedule",
                                   ![t].cand = Chosen(n, choice),
                                   ![t].ret = "cfin", ![t].pushed = <<>>,
                                   ![t].choice = choice]
               /\ calls' = [calls EXCEPT ![n] = @ + 1]
               /\ UNCHANGED <<canceled, diag>>
  /\ UNCHANGED <<sc, pi, njc, gjc, inst, wq, wg, pending, spans, started>>

\* invokeCondition, deferred: AddSpan, node.drop(), joinCounter.Decrease(), node.setup()
ConditionFinish(t) ==
  /\ th[t].pc = "cfin"
  /\ LET n == th[t].node IN
       /\ spans' = IF th[t].r THEN spans ELSE [spans EXCEPT ![n] = th[t].parent]
       /\ gjc' = [gjc EXCEPT ![Owner(n)] = @ - 1]
       /\ nstate' = [nstate EXCEPT ![n] = kNodeStateIdle]
       /\ njc' = [DropJc(n) EXCEPT ![n] = @ + NonCondDeps(n)]
       /\ th' = [th EXCEPT ![t].pc = "done"]
  /\ UNCHANGED <<sc, pi, canceled, inst, wq, wg, pending, calls, started, ended, diag>>

Caller == Run \/ WaitCall \/ WaitReturn

Dispatch(t) ==
  \/ SchedulePut(t)
  \/ ScheduleStore(t)
  \/ InvokeGraphCheck(t)
  \/ InvokeGraphWait(t)
  \/ InvokeGraphDecide(t)
  \/ InvokeGraphTake(t)
  \/ ScheduleGraphReturn(t)

Invoke(t) ==
  \/ InvokeBegin(t)
  \/ StaticPayload(t)
  \/ Drop(t)
  \/ ScheSuccessors(t)
  \/ Decrease(t)
  \/ Done(t)

Next ==
  \/ Caller
  \/ PoolStart
  \/ \E t \in Threads : Dispatch(t)
  \/ \E t \in Workers : Invoke(t)
  \/ \E t \in Workers : SubflowPayload(t) \/ SubflowScheduleGraph(t)
  \/ \E t \in Workers : ConditionPayload(t) \/ ConditionFinish(t)

Spec == Init /\ [][Next]_vars

\* The flows of static nodes only.
InitDag == InitOf(DagScenarios)

NextDag ==
  \/ Caller
  \/ PoolStart
  \/ \E t \in Threads : Dispatch(t)
  \/ \E t \in Workers : Invoke(t)

SpecDag == InitDag /\ [][NextDag]_vars

\* The condition loop, the sub-graph of independent vertices, the two
\* concurrent subflows and the condition vertex with two predecessors.
InitExt == InitOf(ExtScenarios)

SpecExt == InitExt /\ [][Next]_vars

(***************************************************************************)
(* Properties.                                                             *)
(***************************************************************************)

HasCondition == \E n \in Nodes : W.typ[n] = nodeCondition

\* C1: in a flow without condition vertices, for every edge u -> v, an
\* invocation of v has begun only if an invocation of u's payload has ended.
C1_DependencyRespect ==
  ~HasCondition =>
    \A u \in Nodes : \A v \in SeqToSet(W.succ[u]) :
      started[v] > 0 => ended[u] > 0

\* C2: in a flow without cycles through conditions, every vertex is invoked
\* at most once per run, also when several predecessors finish concurrently.
C2_AtMostOnce == \A n \in Nodes : started[n] <= 1

\* C3: every run comes to the point where Wait has returned and every
\* increment of the wait counter has been balanced: when no thread can take a
\* step any more, the caller is past Wait and the wait counter is zero.
C3_WaitReturns ==
  (~ENABLED Next /\ \A t \in Threads : th[t].pc # "cond_wait")
    => (th[Main].pc = "wait_ret" /\ wg = 0)

IsSubGraph(g) == ParentGraph(g) # NoGraph

C5_PanicLatches ==
  \A n \in Nodes :
    diag[n] # "none" =>
      /\ canceled[Owner(n)]
      /\ W.typ[n] = nodeSubflow => canceled[W.sub[n]]
      /\ (IsSubGraph(Owner(n)) /\ th[Main].pc \in {"run_ret", "wait", "wait_ret"})
           => canceled[ParentGraph(Owner(n))]

\* C6: once a run has completed, the setup of the next Run of the graph leaves
\* its cancellation flag reset, so that its entries are scheduled.
C6_SetupResetsCancel ==
  (/\ th[Main].pc = "schedule"
   /\ th[Main].pushed = <<>>
   /\ th[Main].cand # <<>>
   /\ wg = 0)
  => ~canceled[th[Main].dg]

\* a condition invoker whose payload returned an index in range and whose call
\* of schedule has returned
CondScheduled(t) ==
  /\ th[t].pc = "cfin"
  /\ ~th[t].r
  /\ th[t].choice < Len(Mapper(th[t].node))

\* C7 as claimed: the completion of a condition vertex whose payload returned
\* k pushes exactly one successor, the k-th.
C7_ExactlyOne ==
  \A t \in Workers :
    CondScheduled(t) => th[t].pushed = <<Mapper(th[t].node)[th[t].choice + 1]>>

C7_AtMostChosen ==
  \A t \in Workers :
    CondScheduled(t) =>
      \/ th[t].pushed = <<Mapper(th[t].node)[th[t].choice + 1]>>
      \/ th[t].pushed = <<>> /\ canceled[Owner(th[t].node)]

C7_NoDecrement ==
  \A t \in Workers :
    (th[t].pc = "cfin" /\ th'[t].pc = "done") =>
      \A m \in SeqToSet(W.succ[th[t].node]) \ {th[t].node} : njc'[m] = njc[m]

\* C7 amended: the completion of a condition vertex whose payload returned k
\* pushes the k-th successor and no other, or nothing when the cancellation
\* flag of its graph was latched before schedule read it; it decrements the
\* join counter of no successor.
C7_OnlyChosen == []C7_AtMostChosen /\ [][C7_NoDecrement]_vars

\* a condition completion that pushed its chosen successor
C7_Witness ==
  \E t \in Workers : CondScheduled(t) /\ Len(th[t].pushed) = 1

IsSortedByPriority(s) ==
  \A i, j \in DOMAIN s : i < j => W.prio[s[i]] <= W.prio[s[j]]

C8_Sorted == \A t \in Threads : IsSortedByPriority(th[t].pushed)

C8_PutAppends ==
  \A t \in Threads :
    (th'[t].pushed # th[t].pushed /\ th'[t].pushed # <<>>) =>
      /\ th'[t].pushed = Append(th[t].pushed, th[t].cand[1])
      /\ wq' = Append(wq, th[t].cand[1])

\* C8: the vertices one call of schedule pushes (the ready successors found
\* by one sche_successors, the entries of one scheduleGraph) are appended to
\* the work queue in ascending order of priority value.
C8_PriorityOrder == []C8_Sorted /\ [][C8_PutAppends]_vars

\* one call has pushed three vertices whose order in the successor list is
\* not their priority order
C8_Witness ==
  \E t \in Workers :
    /\ th[t].node # NoNode
    /\ Len(th[t].pushed) = 3
    /\ th[t].pushed # W.succ[th[t].node]

\* C9 as claimed: Run does not block its caller.
C9_RunNeverBlocks == th[Main].pc # "cond_wait"

\* C9 amended: Run runs the scheduler loop on the caller's thread and returns
\* only when the join counter of the graph is zero or its cancellation flag
\* is latched; Wait then blocks until the wait counter is zero.
C9_RunReturnsWhenDrained ==
  th[Main].pc = "run_ret" => (gjc[W.plan[pi]] = 0 \/ canceled[W.plan[pi]])

\* Run has returned from a run without panic in which every vertex of the
\* graph was invoked
C9_Witness ==
  /\ th[Main].pc = "run_ret"
  /\ ~canceled[W.plan[pi]]
  /\ \A n \in SeqToSet(W.gnodes[W.plan[pi]]) : ended[n] > 0

\* C10: a condition payload that returns a choice not less than the number of
\* successors makes the invoker panic with the out-of-range diagnostic; the
\* flag of the graph is latched and no successor is pushed.
C10_OutOfRangePanics ==
  \A t \in Workers :
    (/\ th[t].pc = "cfin"
     /\ th[t].choice >= Len(Mapper(th[t].node)))
    => /\ diag[th[t].node] = "out_of_range"
       /\ canceled[Owner(th[t].node)]
       /\ th[t].pushed = <<>>

\* the condition loop has run as often as its script says: B once per
\* selection of the back edge and once more, D, A and the exit once
LoopCountsExact ==
  LET n == Count(0, W.script["cond"]) IN
    /\ calls["B"] = n + 1 /\ started["B"] = n + 1
    /\ calls["D"] = 1 /\ started["D"] = 1
    /\ calls["A"] = 1 /\ started["A"] = 1
    /\ gjc["g0"] = 0
    /\ wq = <<>>

\* the run of the condition loop can stop only where Wait has returned
LoopRunEnds == ~ENABLED Next => th[Main].pc = "wait_ret"

\* C11: in the flow A -> B -> cond with cond's successors [B, D], where cond
\* returns the back edge n times and then the exit, the run ends with Wait
\* returned, and then B's payload has been invoked n + 1 times, D's and A's
\* once, the join counter of the graph is zero and the queue is empty.
C11_ConditionLoop ==
  sc = "loop" => (LoopRunEnds /\ (th[Main].pc = "wait_ret" => LoopCountsExact))

\* C11, the counts alone: whenever Wait has returned from the condition loop
C11_CountsWhenDone ==
  (sc = "loop" /\ th[Main].pc = "wait_ret") => LoopCountsExact

\* a vertex of graph g is still queued (in the work queue or handed to the
\* pool) or running (its invoker has not yet come back from its payload)
SubGraphBusy(g) ==
  LET ns == SeqToSet(W.gnodes[g]) IN
    \/ \E i \in DOMAIN wq : wq[i] \in ns
    \/ \E item \in BagToSet(pending) : item[1] \in ns
    \/ \E u \in Workers : /\ th[u].pc \in {"begin", "payload"}
                           /\ th[u].node \in ns

\* C12: the payload of a successor of a subflow vertex is not invoked while a
\* vertex of the subflow's sub-graph is still queued or running, also when a
\* vertex of the sub-graph panics.
C12_SubflowReleasesAfterSubGraph ==
  \A t \in Workers :
    th[t].pc = "payload" =>
      \A sf \in Nodes :
        (W.typ[sf] = nodeSubflow /\ th[t].node \in SeqToSet(W.succ[sf]))
          => ~SubGraphBusy(W.sub[sf])

\* the number of subflow vertices a graph is nested in
RECURSIVE GraphDepth(_)
GraphDepth(g) == IF IsSubGraph(g) THEN 1 + GraphDepth(ParentGraph(g)) ELSE 0

\* the maximum subflow nesting depth of the flow
MaxNesting == CHOOSE d \in 0..Cardinality(Graphs) :
                /\ \E g \in Graphs : GraphDepth(g) = d
                /\ \A g \in Graphs : GraphDepth(g) <= d

\* every parked dispatcher has a reason to wait (no wake-up was lost) and no
\* dispatcher is blocked in a take on an empty queue
NoDispatcherMisled ==
  \A t \in Threads :
    /\ th[t].pc = "cond_wait" => MustWait(th[t].dg)
    /\ th[t].pc # "ig_take"

\* C13: with a pool of at least (maximum subflow nesting depth + 1) workers,
\* a run without panic cannot stop anywhere but where Wait has returned, also
\* when several subflow vertices are ready at the same time.
C13_PoolSuffices ==
  (/\ W.panics = {}
   /\ Concurrency >= MaxNesting + 1
   /\ NoDispatcherMisled
   /\ ~ENABLED Next)
  => th[Main].pc = "wait_ret"

\* C14: no dispatcher is left parked for ever on a graph whose join counter
\* is zero or whose cancellation flag is latched: where no thread can take a
\* step any more, no dispatcher sits in Wait on such a graph.
C14_NoLostWakeup ==
  ~ENABLED Next =>
    \A t \in Threads : th[t].pc = "cond_wait" => ~LoopExit(th[t].dg)

\* the number of pushes of vertices of graph g that schedule has made and
\* whose invoker has not yet decreased the join counter of the graph: the
\* entries of the work queue, the closures handed to the pool and the
\* invokers at work
Outstanding(g) ==
  LET ns == SeqToSet(W.gnodes[g]) IN
    Cardinality({i \in DOMAIN wq : wq[i] \in ns})
    + SumOver([item \in BagToSet(pending) |->
                 IF item[1] \in ns THEN CopiesIn(item, pending) ELSE 0],
              BagToSet(pending))
    + Cardinality({u \in Workers : /\ th[u].pc \notin {"idle", "done"}
                                   /\ th[u].node \in ns})

\* C15: in every state the join counter of each graph is the number of its
\* vertices that were scheduled and have not finished their bookkeeping; so
\* it is never negative, and never zero while one of them is queued or running.
C15_JoinCounterCounts == \A g \in Graphs : gjc[g] = Outstanding(g)

\* a step of schedule that puts a vertex on the work queue does so for a
\* vertex whose join counter is zero, or on behalf of a condition invoker
\* that selected the vertex
PushOnlyWhenReady ==
  \A t \in Threads :
    (th[t].pc = "schedule" /\ th'[t].pc = "sched_store") =>
      \/ njc[Head(th[t].cand)] = 0
      \/ th[t].ret = "cfin"

\* C16: a vertex is pushed onto the work queue only when its join counter is
\* zero or when a condition vertex selected it; a condition vertex with
\* several static predecessors is not pushed while its counter is positive.
C16_PushedOnlyWhenReady == [][PushOnlyWhenReady]_vars

\* C17: within a run the state of a vertex only moves forward, idle ->
\* waiting -> running -> finished or failed: when an invoker has done its
\* bookkeeping, the state of its vertex is failed if the payload panicked and
\* finished if it returned.
C17_StateEndsFinishedOrFailed ==
  \A t \in Workers :
    th[t].pc = "done" =>
      nstate[th[t].node] =
        IF th[t].r THEN kNodeStateFailed ELSE kNodeStateFinished

\* C18: once the scheduler loop of a graph has exited on cancellation, the
\* payload of a vertex of that graph that was still in the work queue is not
\* invoked any more, neither through another dispatcher that takes from the
\* same queue nor through a later Run on the executor.
C18_AbandonedNeverInvoked ==
  \A t \in Workers : th[t].pc = "payload" => ~th[t].stale

\* the parent span a vertex is to be dispatched with: the span of the subflow
\* vertex that embeds its graph, none for a vertex of a graph handed to Run
ExpectedSpan(n) ==
  IF IsSubGraph(Owner(n))
  THEN CHOOSE sf \in Nodes : W.sub[sf] = Owner(n)
  ELSE NoSpan

\* C19: every vertex is dispatched by the dispatcher of its own graph: an
\* invoker of a sub-graph vertex carries the span of the subflow vertex as
\* parent span, an invoker of a vertex of the parent graph carries the parent
\* span of the parent graph, and so do the spans recorded in the profile.
C19_DispatchedByOwnDispatcher ==
  /\ \A t \in Workers :
       th[t].node # NoNode => th[t].parent = ExpectedSpan(th[t].node)
  /\ \A n \in Nodes :
       spans[n] # "absent" => spans[n] = ExpectedSpan(n)

\* C20: whenever a dispatcher is about to take from the work queue, the queue
\* is not empty, also when several dispatchers take from the shared queue.
C20_TakeOnNonEmptyQueue ==
  \A t \in Threads : th[t].pc = "ig_take" => wq # <<>>

====
